---- MODULE Spec2Model ----
(***************************************************************************)
(* The POST /store/carts handler (create-cart) of                          *)
(* packages/medusa/src/api/routes/store: one request travelling through    *)
(* the handler, one await per step, against a transactional store that a   *)
(* concurrent reader may query at any moment.                              *)
(***************************************************************************)
EXTENDS Integers, Sequences, FiniteSets, TLC

\* ---------------------------------------------------------------- bounds
MaxItems == 2       \* longest items array of a request body
MaxTwice == 4       \* quantities range over 0, 0.5, ..., MaxTwice/2

\* ---------------------------------------------------------------- values
Undefined == "undefined"

\* A JSON number n is kept as 2*n so that 0.5, 1.5 ... are representable.
Num(twice) == [t |-> "number", twice |-> twice]
UndefinedQuantity == [t |-> "undefined", twice |-> 0]

VariantInputs == {Undefined, "v1", "vX"}
QuantityInputs == {UndefinedQuantity} \cup {Num(h) : h \in 0..MaxTwice}
ItemInputs == [variant_id : VariantInputs, quantity : QuantityInputs]

SeqUpTo(S, n) == UNION {[1..k -> S] : k \in 0..n}

RegionIdInputs == {Undefined, "r2", "rX"}
CountryCodeInputs == {Undefined, "US"}
SalesChannelInputs == {Undefined, "sc1"}
\* caller-supplied context objects (an absent context spreads like {})
ContextInputs ==
    { <<>>,
      [ip |-> "caller-ip"],
      [user_agent |-> "caller-ua", cart_type |-> "b2b"] }
\* req.user as injected by the authentication middleware
UserInputs ==
    { [present |-> FALSE, customer_id |-> Undefined],
      [present |-> TRUE, customer_id |-> Undefined],
      [present |-> TRUE, customer_id |-> "c1"] }

\* what regionService.list may return
RegionListings ==
    { <<>>, <<[id |-> "r1"], [id |-> "r2"]>>, <<[id |-> "r2"], [id |-> "r1"]>> }
\* variants that exist (spec 4.2: generate fails for any other)
ExistingVariants == {"v1"}
\* e-mail addresses the customer record may carry
Emails == {"a@b.com", "c@d.org"}

CartId == "cart_1"
NoRegion == [id |-> Undefined]
NoCustomer == [id |-> Undefined, email |-> Undefined]
EmptyStore == [carts |-> {}, line_items |-> <<>>]

NoBody ==
    [region_id |-> Undefined, sales_channel_id |-> Undefined,
     country_code |-> Undefined, items |-> <<>>, context |-> <<>>]
NoUser == [present |-> FALSE, customer_id |-> Undefined]
NoToCreate ==
    [region_id |-> Undefined, sales_channel_id |-> Undefined, context |-> <<>>,
     customer_id |-> Undefined, email |-> Undefined,
     shipping_address |-> Undefined]

VARIABLES
    pc,                 \* position of the handler
    body,               \* req.validatedBody / the raw body before validation
    user,               \* req.user
    reqContext,         \* { ip, user_agent } taken from the request
    regions,            \* const regions
    region,             \* let region
    toCreate,           \* const toCreate
    customer,           \* const customer
    generatedLineItems, \* const generatedLineItems
    idx,                \* position of the for..of loop over validated.items
    committed,          \* rows visible to every connection
    tx,                 \* rows written inside the open transaction
    cart,               \* let cart (the rows bound to it, at most one)
    calls,              \* collaborator calls issued so far, in order
    createArgs,         \* arguments of the cartService.create calls
    generateCalls,      \* lineItemService.generate calls: arguments, result
    addLineItemsCalls,  \* cartService.addLineItems calls: arguments, result
    flagResults,        \* results of the isFeatureEnabled calls
    error,              \* what the request failed with
    status,             \* HTTP status sent by the handler (0: none)
    readerView          \* what the concurrent reader saw at its last read

vars == <<pc, body, user, reqContext, regions, region, toCreate, customer,
          generatedLineItems, idx, committed, tx, cart, calls, createArgs,
          generateCalls, addLineItemsCalls, flagResults, error, status,
          readerView>>

\* ------------------------------------------------------- pure helpers
\* class-validator @IsNotEmpty() @IsString() on variant_id
VariantIdValid(v) == v # Undefined /\ v # ""
\* a check that accepts every number
IsNumber(q) == q.t = "number"
\* class-validator @IsInt()
IsInt(q) == q.t = "number" /\ q.twice % 2 = 0
\* class-validator @IsNotEmpty() @IsInt() on quantity
QuantityValid(q) == q.t # "undefined" /\ IsInt(q)
\* class Item
ItemValid(item) == VariantIdValid(item.variant_id) /\ QuantityValid(item.quantity)
\* class StorePostCartReq, @ValidateNested({ each: true }) on items
BodyValid(b) == \A i \in 1..Len(b.items) : ItemValid(b.items[i])

isDefined(v) == v # Undefined

\* regions.find((r) => r.id === id): index of the first match, 0 if none
RECURSIVE FindFrom(_, _, _)
FindFrom(rs, id, i) ==
    IF i > Len(rs) THEN 0
    ELSE IF rs[i].id = id THEN i
    ELSE FindFrom(rs, id, i + 1)
Find(rs, id) == FindFrom(rs, id, 1)

\* regions[regions.length - 1]
LastRegion(rs) == rs[Len(rs)]
\* regions[0]
DefaultRegion(rs) == rs[1]

\* { ...b, ...a }
SpreadReversed(a, b) ==
    [k \in (DOMAIN a) \cup (DOMAIN b) |-> IF k \in DOMAIN a THEN a[k] ELSE b[k]]
\* { ...a, ...b }
Spread(a, b) ==
    [k \in (DOMAIN a) \cup (DOMAIN b) |-> IF k \in DOMAIN b THEN b[k] ELSE a[k]]

\* String.prototype.toLowerCase on the codes of CountryCodeInputs
toLowerCase(s) == CASE s = "US" -> "us" [] OTHER -> s

\* req.user
HasUser(u) == u.present
\* req.user && req.user.customer_id
HasCustomer(u) == u.present /\ u.customer_id # Undefined /\ u.customer_id # ""

\* if (validated.country_code) toCreate["shipping_address"] = ...
WithShippingAddress(tc, b) ==
    IF b.country_code # Undefined /\ b.country_code # ""
    THEN [tc EXCEPT !.shipping_address = toLowerCase(b.country_code)]
    ELSE tc

\* generatedLineItems.unshift(generatedLineItem)
Unshift(list, item) == <<item>> \o list
\* generatedLineItems.push(generatedLineItem)
Push(list, item) == Append(list, item)

\* { validateSalesChannels: true }
AlwaysValidate(flag) == [validateSalesChannels |-> TRUE]
\* { validateSalesChannels: featureFlagRouter.isFeatureEnabled(...) }
AddLineItemsConfig(flag) == [validateSalesChannels |-> flag]

\* lineItemService.generate: "ok" or the error it throws
GenerateOutcome(item) ==
    IF item.variant_id \notin ExistingVariants THEN "not_found: variant"
    ELSE IF item.quantity.twice \div 2 < 1 THEN "invalid_data: quantity"
    ELSE "ok"
\* the line item lineItemService.generate returns
GeneratedLineItem(item, regionId, ctx) ==
    [variant_id |-> item.variant_id, quantity |-> item.quantity.twice \div 2,
     region_id |-> regionId, customer_id |-> ctx.customer_id]

\* rows of line_items that belong to a cart, in order
ItemsOf(store, id) == SelectSeq(store.line_items, LAMBDA li : li.cart_id = id)
\* what a query of a store returns: the carts with their line items
View(store) == {[c EXCEPT !.items = ItemsOf(store, c.id)] : c \in store.carts}

\* ---------------------------------------------------------------- Init
Init ==
    /\ pc = "idle"
    /\ body = NoBody
    /\ user = NoUser
    /\ reqContext = [ip |-> "req-ip", user_agent |-> "req-ua"]
    /\ regions = <<>>
    /\ region = NoRegion
    /\ toCreate = NoToCreate
    /\ customer = NoCustomer
    /\ generatedLineItems = <<>>
    /\ idx = 1
    /\ committed = EmptyStore
    /\ tx = EmptyStore
    /\ cart = {}
    /\ calls = <<>>
    /\ createArgs = <<>>
    /\ generateCalls = <<>>
    /\ addLineItemsCalls = <<>>
    /\ flagResults = <<>>
    /\ error = "none"
    /\ status = 0
    /\ readerView = {}

\* ------------------------------------------------------------- actions
\* a POST /store/carts request arrives
ReceiveRequest ==
    /\ pc = "idle"
    /\ \E rid \in RegionIdInputs, cc \in CountryCodeInputs,
          sc \in SalesChannelInputs, ctx \in ContextInputs,
          its \in SeqUpTo(ItemInputs, MaxItems) :
          body' = [region_id |-> rid, sales_channel_id |-> sc,
                   country_code |-> cc, items |-> its, context |-> ctx]
    /\ \E u \in UserInputs : user' = u
    /\ pc' = "validate"
    /\ UNCHANGED <<reqContext, regions, region, toCreate, customer,
                   generatedLineItems, idx, committed, tx, cart, calls,
                   createArgs, generateCalls, addLineItemsCalls, flagResults,
                   error, status, readerView>>

\* the body is validated against StorePostCartReq before the handler runs
ValidateBody ==
    /\ pc = "validate"
    /\ IF BodyValid(body)
       THEN pc' = "list" /\ UNCHANGED error
       ELSE pc' = "failed" /\ error' = "ValidationError"
    /\ UNCHANGED <<body, user, reqContext, regions, region, toCreate, customer,
                   generatedLineItems, idx, committed, tx, cart, calls,
                   createArgs, generateCalls, addLineItemsCalls, flagResults,
                   status, readerView>>

\* const regions = await regionService.list(...)
ListRegions ==
    /\ pc = "list"
    /\ \E rl \in RegionListings : regions' = rl
    /\ calls' = Append(calls, "regionService.list")
    /\ pc' = "resolve"
    /\ UNCHANGED <<body, user, reqContext, region, toCreate, customer,
                   generatedLineItems, idx, committed, tx, cart, createArgs,
                   generateCalls, addLineItemsCalls, flagResults, error, status,
                   readerView>>

\* const toCreate = { region_id, sales_channel_id, context }
BuildToCreate(r) ==
    [NoToCreate EXCEPT !.region_id = r.id,
                       !.sales_channel_id = body.sales_channel_id,
                       !.context = Spread(reqContext, body.context)]

\* let region ... const toCreate = {...}, up to the next await
ResolveRegion ==
    /\ pc = "resolve"
    /\ IF isDefined(body.region_id) /\ Find(regions, body.region_id) = 0
       THEN \* region is undefined and region.id throws
            /\ pc' = "failed"
            /\ error' = "TypeError"
            /\ UNCHANGED <<region, toCreate>>
       ELSE IF ~isDefined(body.region_id) /\ Len(regions) = 0
       THEN /\ pc' = "failed"
            /\ error' = "invalid_data: A region is required to create a cart"
            /\ UNCHANGED <<region, toCreate>>
       ELSE /\ region' = IF isDefined(body.region_id)
                         THEN regions[Find(regions, body.region_id)]
                         ELSE DefaultRegion(regions)
            /\ IF HasCustomer(user)
               THEN /\ toCreate' = BuildToCreate(region')
                    /\ pc' = "customer"
               ELSE /\ toCreate' = WithShippingAddress(BuildToCreate(region'), body)
                    /\ pc' = "tx"
            /\ UNCHANGED error
    /\ UNCHANGED <<body, user, reqContext, regions, customer,
                   generatedLineItems, idx, committed, tx, cart, calls,
                   createArgs, generateCalls, addLineItemsCalls, flagResults,
                   status, readerView>>

\* const customer = await customerService.retrieve(req.user.customer_id)
RetrieveCustomer ==
    /\ pc = "customer"
    /\ calls' = Append(calls, "customerService.retrieve")
    /\ \/ \E e \in Emails :
            /\ customer' = [id |-> user.customer_id, email |-> e]
            /\ toCreate' = WithShippingAddress(
                   [toCreate EXCEPT !.customer_id = customer'.id,
                                    !.email = customer'.email], body)
            /\ pc' = "tx"
            /\ UNCHANGED error
       \/ /\ pc' = "failed"
          /\ error' = "not_found: customer"
          /\ UNCHANGED <<customer, toCreate>>
    /\ UNCHANGED <<body, user, reqContext, regions, region,
                   generatedLineItems, idx, committed, tx, cart,
                   createArgs, generateCalls, addLineItemsCalls, flagResults,
                   status, readerView>>

\* the row cartService.create inserts
CartRow(tc) ==
    [id |-> CartId, region_id |-> tc.region_id,
     sales_channel_id |-> tc.sales_channel_id, context |-> tc.context,
     customer_id |-> tc.customer_id, email |-> tc.email,
     shipping_address |-> tc.shipping_address, items |-> <<>>]

\* a create issued on cartService itself: the row is visible at once
TxCreateOutsideTx ==
    /\ pc = "tx"
    /\ calls' = calls \o <<"manager.transaction", "cartService.create">>
    /\ createArgs' = Append(createArgs, toCreate)
    /\ committed' = [committed EXCEPT !.carts = @ \cup {CartRow(toCreate)}]
    /\ cart' = {CartRow(toCreate)}
    /\ idx' = 1
    /\ generatedLineItems' = <<>>
    /\ pc' = IF Len(body.items) > 0 THEN "generate" ELSE "commit"
    /\ UNCHANGED <<body, user, reqContext, regions, region, toCreate, customer,
                   tx, generateCalls, addLineItemsCalls, flagResults,
                   error, status, readerView>>

\* entityManager.transaction(async (manager) => { cart = await
\* cartServiceTx.create(toCreate) ...
TxCreate ==
    /\ pc = "tx"
    /\ calls' = calls \o <<"manager.transaction", "cartService.create">>
    /\ createArgs' = Append(createArgs, toCreate)
    /\ tx' = [tx EXCEPT !.carts = @ \cup {CartRow(toCreate)}]
    /\ cart' = {CartRow(toCreate)}
    /\ idx' = 1
    /\ generatedLineItems' = <<>>
    /\ pc' = IF Len(body.items) > 0 THEN "generate" ELSE "commit"
    /\ UNCHANGED <<body, user, reqContext, regions, region, toCreate, customer,
                   committed, generateCalls, addLineItemsCalls, flagResults,
                   error, status, readerView>>

\* the record of one lineItemService.generate call
GenerateCall(item) ==
    [variant_id |-> item.variant_id, region_id |-> region.id,
     quantity |-> item.quantity.twice \div 2,
     customer_id |-> user.customer_id, result |-> GenerateOutcome(item)]

\* one round of the for..of loop: generate succeeds and the item is pushed
GenerateLineItem ==
    /\ pc = "generate"
    /\ idx <= Len(body.items)
    /\ GenerateOutcome(body.items[idx]) = "ok"
    /\ calls' = Append(calls, "lineItemService.generate")
    /\ generateCalls' = Append(generateCalls, GenerateCall(body.items[idx]))
    /\ generatedLineItems' =
           Push(generatedLineItems,
                GeneratedLineItem(body.items[idx], region.id,
                                  [region |-> region,
                                   customer_id |-> user.customer_id]))
    /\ idx' = idx + 1
    /\ pc' = IF idx = Len(body.items) THEN "addLineItems" ELSE "generate"
    /\ UNCHANGED <<body, user, reqContext, regions, region, toCreate, customer,
                   committed, tx, cart, createArgs, addLineItemsCalls,
                   flagResults, error, status, readerView>>

\* a loop that catches the error of generate and goes on with the next item
GenerateThrowsSwallowed ==
    /\ pc = "generate"
    /\ idx <= Len(body.items)
    /\ GenerateOutcome(body.items[idx]) # "ok"
    /\ calls' = Append(calls, "lineItemService.generate")
    /\ generateCalls' = Append(generateCalls, GenerateCall(body.items[idx]))
    /\ idx' = idx + 1
    /\ pc' = IF idx = Len(body.items) THEN "addLineItems" ELSE "generate"
    /\ UNCHANGED <<body, user, reqContext, regions, region, toCreate, customer,
                   generatedLineItems, committed, tx, cart, createArgs,
                   addLineItemsCalls, flagResults, error, status, readerView>>

\* one round of the for..of loop: generate throws, the callback rejects
GenerateThrows ==
    /\ pc = "generate"
    /\ idx <= Len(body.items)
    /\ GenerateOutcome(body.items[idx]) # "ok"
    /\ calls' = Append(calls, "lineItemService.generate")
    /\ generateCalls' = Append(generateCalls, GenerateCall(body.items[idx]))
    /\ error' = GenerateOutcome(body.items[idx])
    /\ pc' = "rollback"
    /\ UNCHANGED <<body, user, reqContext, regions, region, toCreate, customer,
                   generatedLineItems, idx, committed, tx, cart, createArgs,
                   addLineItemsCalls, flagResults, status, readerView>>

\* the row cartService.addLineItems inserts for a generated line item
LineItemRow(id, li) ==
    [cart_id |-> id, variant_id |-> li.variant_id, quantity |-> li.quantity,
     region_id |-> li.region_id, customer_id |-> li.customer_id]

\* await cartServiceTx.addLineItems(cart.id, generatedLineItems,
\*   { validateSalesChannels: featureFlagRouter.isFeatureEnabled(...) })
AddLineItems ==
    /\ pc = "addLineItems"
    /\ \E flag \in BOOLEAN, ok \in BOOLEAN :
          /\ flagResults' = Append(flagResults, flag)
          /\ calls' = calls \o <<"featureFlagRouter.isFeatureEnabled",
                                 "cartService.addLineItems">>
          /\ addLineItemsCalls' =
                 Append(addLineItemsCalls,
                        [cart_id |-> CartId, items |-> generatedLineItems,
                         config |-> AddLineItemsConfig(flag), ok |-> ok])
          /\ IF ok
             THEN /\ tx' = [tx EXCEPT !.line_items = @ \o
                               [i \in 1..Len(generatedLineItems) |->
                                   LineItemRow(CartId, generatedLineItems[i])]]
                  /\ pc' = "commit"
                  /\ UNCHANGED error
             ELSE /\ pc' = "rollback"
                  /\ error' = "addLineItems failed"
                  /\ UNCHANGED tx
    /\ UNCHANGED <<body, user, reqContext, regions, region, toCreate, customer,
                   generatedLineItems, idx, committed, cart, createArgs,
                   generateCalls, status, readerView>>

\* the callback resolved: the transaction commits
Commit ==
    /\ pc = "commit"
    /\ committed' = [carts |-> committed.carts \cup tx.carts,
                     line_items |-> committed.line_items \o tx.line_items]
    /\ tx' = EmptyStore
    /\ calls' = Append(calls, "commit")
    /\ pc' = "retrieve"
    /\ UNCHANGED <<body, user, reqContext, regions, region, toCreate, customer,
                   generatedLineItems, idx, cart, createArgs, generateCalls,
                   addLineItemsCalls, flagResults, error, status, readerView>>

\* a handler that catches the rejection and goes on to read the cart
RollbackThenRetrieve ==
    /\ pc = "rollback"
    /\ tx' = EmptyStore
    /\ calls' = Append(calls, "rollback")
    /\ pc' = "retrieve"
    /\ UNCHANGED <<body, user, reqContext, regions, region, toCreate, customer,
                   generatedLineItems, idx, committed, cart, createArgs,
                   generateCalls, addLineItemsCalls, flagResults, error,
                   status, readerView>>

\* the callback rejected: the transaction rolls back, the handler throws
Rollback ==
    /\ pc = "rollback"
    /\ tx' = EmptyStore
    /\ calls' = Append(calls, "rollback")
    /\ pc' = "failed"
    /\ UNCHANGED <<body, user, reqContext, regions, region, toCreate, customer,
                   generatedLineItems, idx, committed, cart, createArgs,
                   generateCalls, addLineItemsCalls, flagResults, error,
                   status, readerView>>

\* cart = await cartService.retrieveWithTotals(cart!.id, {...})
RetrieveWithTotals ==
    /\ pc = "retrieve"
    /\ calls' = Append(calls, "cartService.retrieveWithTotals")
    /\ cart' = {c \in View(committed) : \E k \in cart : c.id = k.id}
    /\ pc' = "respond"
    /\ UNCHANGED <<body, user, reqContext, regions, region, toCreate, customer,
                   generatedLineItems, idx, committed, tx, createArgs,
                   generateCalls, addLineItemsCalls, flagResults, error,
                   status, readerView>>

\* res.status(200).json({ cart })
Respond ==
    /\ pc = "respond"
    /\ status' = 200
    /\ calls' = Append(calls, "res.json")
    /\ pc' = "done"
    /\ UNCHANGED <<body, user, reqContext, regions, region, toCreate, customer,
                   generatedLineItems, idx, committed, tx, cart, createArgs,
                   generateCalls, addLineItemsCalls, flagResults, error,
                   readerView>>

\* another connection reads the carts while the request is in flight
ReadCart ==
    /\ readerView' = View(committed)
    /\ UNCHANGED <<pc, body, user, reqContext, regions, region, toCreate,
                   customer, generatedLineItems, idx, committed, tx, cart,
                   calls, createArgs, generateCalls, addLineItemsCalls,
                   flagResults, error, status>>

Next ==
    \/ ReceiveRequest
    \/ ValidateBody
    \/ ListRegions
    \/ ResolveRegion
    \/ RetrieveCustomer
    \/ TxCreate
    \/ GenerateLineItem
    \/ GenerateThrows
    \/ AddLineItems
    \/ Commit
    \/ Rollback
    \/ RetrieveWithTotals
    \/ Respond
    \/ ReadCart

Spec == Init /\ [][Next]_vars
\* ------------------------------------------------------------- claims
\* positions of a collaborator call in the call log
Positions(name) == {i \in 1..Len(calls) : calls[i] = name}
\* the request has left the handler
Ended == pc \in {"done", "failed"}
\* the handler has gone past the resolution of the region
Resolved == calls # <<>> /\ pc # "resolve"

\* C1: when lineItemService.generate or cartService.addLineItems failed for
\* a request with items, the store holds no cart and no line item of that
\* request once the request has ended.
C1_Atomicity ==
    (/\ Ended
     /\ Len(body.items) > 0
     /\ \/ \E i \in 1..Len(generateCalls) : generateCalls[i].result # "ok"
        \/ \E i \in 1..Len(addLineItemsCalls) : ~addLineItemsCalls[i].ok)
    => committed.carts = {} /\ committed.line_items = <<>>

\* a request whose second item failed after the first had been generated
C1_Witness ==
    /\ pc = "failed"
    /\ Len(generateCalls) = 2
    /\ generateCalls[1].result = "ok"
    /\ generateCalls[2].result # "ok"
    /\ Len(generatedLineItems) = 1
    /\ Positions("rollback") # {}

\* C2: without region_id, a non-empty region listing gives the cart the id
\* of the first listed region; an empty listing fails the request with the
\* "A region is required" error and creates no cart.
C2_DefaultRegion ==
    (~isDefined(body.region_id) /\ Resolved)
    => IF Len(regions) > 0
       THEN /\ toCreate.region_id = regions[1].id
            /\ \A c \in tx.carts \cup committed.carts \cup cart :
                  c.region_id = regions[1].id
            /\ \A k \in 1..Len(createArgs) :
                  createArgs[k].region_id = regions[1].id
       ELSE /\ pc = "failed"
            /\ error = "invalid_data: A region is required to create a cart"
            /\ createArgs = <<>>
            /\ tx = EmptyStore /\ committed = EmptyStore

\* a cart created in the first of two listed regions
C2_Witness ==
    /\ status = 200
    /\ ~isDefined(body.region_id)
    /\ Len(regions) = 2
    /\ \E c \in committed.carts : c.region_id = regions[1].id

\* C3: a region_id that matches no listed region fails the request with a
\* not-found error before any persistence call.
C3_RegionNotFound ==
    (/\ isDefined(body.region_id)
     /\ Resolved
     /\ \A i \in 1..Len(regions) : regions[i].id # body.region_id)
    => /\ pc = "failed"
       /\ error = "not_found: region"
       /\ createArgs = <<>>
       /\ Positions("manager.transaction") = {}

\* C4: addLineItems is called at most once, after every generate call, with
\* one line item per requested item in request order; generate calls are
\* issued in request order; a successful request with items attaches them
\* to the cart in that order.
C4_LineItemOrder ==
    /\ Len(addLineItemsCalls) <= 1
    /\ Len(generateCalls) <= Len(body.items)
    /\ \A i \in 1..Len(generateCalls) :
          /\ generateCalls[i].variant_id = body.items[i].variant_id
          /\ generateCalls[i].quantity = body.items[i].quantity.twice \div 2
    /\ \A k \in 1..Len(addLineItemsCalls) :
          /\ Len(addLineItemsCalls[k].items) = Len(body.items)
          /\ Len(generateCalls) = Len(body.items)
          /\ \A i \in 1..Len(body.items) :
                /\ addLineItemsCalls[k].items[i].variant_id =
                       body.items[i].variant_id
                /\ addLineItemsCalls[k].items[i].quantity =
                       body.items[i].quantity.twice \div 2
    /\ \A g \in Positions("lineItemService.generate"),
          a \in Positions("cartService.addLineItems") : g < a
    /\ (status = 200 /\ Len(body.items) > 0)
       => /\ Len(addLineItemsCalls) = 1
          /\ Len(ItemsOf(committed, CartId)) = Len(body.items)
          /\ \A i \in 1..Len(body.items) :
                /\ ItemsOf(committed, CartId)[i].variant_id =
                       body.items[i].variant_id
                /\ ItemsOf(committed, CartId)[i].quantity =
                       body.items[i].quantity.twice \div 2

\* a successful request with two different items
C4_Witness ==
    /\ status = 200
    /\ Len(body.items) = 2
    /\ body.items[1] # body.items[2]
    /\ Len(ItemsOf(committed, CartId)) = 2

\* C5 as stated: a request with an item whose variant_id is missing or
\* whose quantity is not an integer or is below 1 never reaches
\* cartService.create.
C5_MalformedNeverCreates ==
    (\E i \in 1..Len(body.items) :
        \/ body.items[i].variant_id = Undefined
        \/ body.items[i].quantity.t = "undefined"
        \/ body.items[i].quantity.twice % 2 = 1
        \/ body.items[i].quantity.twice < 2)
    => createArgs = <<>>

\* C5 amended: a request with an item whose variant_id is missing or whose
\* quantity is missing or not an integer is rejected with a validation
\* error before any collaborator is called; cartService.create is never
\* invoked for it.
C5_InvalidRejected ==
    (\E i \in 1..Len(body.items) :
        \/ body.items[i].variant_id = Undefined
        \/ body.items[i].quantity.t = "undefined"
        \/ body.items[i].quantity.twice % 2 = 1)
    => /\ createArgs = <<>>
       /\ calls = <<>>
       /\ tx = EmptyStore /\ committed = EmptyStore
       /\ pc \in {"validate", "failed"}
       /\ pc = "failed" => error = "ValidationError"

\* a request rejected for a quantity of 0.5 or 1.5
C5_Witness ==
    /\ pc = "failed"
    /\ error = "ValidationError"
    /\ \E i \in 1..Len(body.items) :
          /\ body.items[i].variant_id = "v1"
          /\ body.items[i].quantity.twice % 2 = 1

\* C6: whatever a reader of the store sees is either no cart or the cart
\* with all its requested line items in order; after a 200 response the
\* cart is there, and it is never without items when items were requested.
C6_Isolation ==
    /\ \A c \in View(committed) \cup readerView :
          /\ Len(c.items) = Len(body.items)
          /\ \A i \in 1..Len(c.items) :
                /\ c.items[i].variant_id = body.items[i].variant_id
                /\ c.items[i].quantity = body.items[i].quantity.twice \div 2
    /\ status = 200
       => /\ View(committed) # {}
          /\ Len(body.items) > 0 => \A c \in View(committed) : c.items # <<>>

\* a reader that has seen the committed cart with its two line items
C6_Witness ==
    /\ \E c \in readerView : Len(c.items) = 2
    /\ Len(body.items) = 2

\* C7: the context passed to cartService.create has the keys ip and
\* user_agent, holds the caller's value for every key the caller supplied,
\* and the request's value for ip and user_agent otherwise.
C7_ContextMerge ==
    \A k \in 1..Len(createArgs) :
        /\ {"ip", "user_agent"} \subseteq DOMAIN createArgs[k].context
        /\ \A key \in DOMAIN body.context :
              createArgs[k].context[key] = body.context[key]
        /\ \A key \in {"ip", "user_agent"} \ DOMAIN body.context :
              createArgs[k].context[key] = reqContext[key]

\* a cart created from a caller context that overrides ip
C7_Witness ==
    /\ status = 200
    /\ "ip" \in DOMAIN body.context
    /\ \E c \in committed.carts : c.context.ip = "caller-ip"

\* C8: customer_id and email of the cart are set exactly when req.user has
\* a customer_id, and then they are those of the record returned by
\* customerService.retrieve, called before cartService.create; when the
\* retrieval fails nothing is persisted.
C8_CustomerAttachment ==
    /\ \A args \in {createArgs[k] : k \in 1..Len(createArgs)}
                   \cup {[customer_id |-> c.customer_id, email |-> c.email] :
                            c \in tx.carts \cup committed.carts} :
          IF user.present /\ user.customer_id # Undefined
          THEN /\ args.customer_id = customer.id
               /\ args.customer_id = user.customer_id
               /\ args.email = customer.email
               /\ args.email \in Emails
               /\ \A r \in Positions("customerService.retrieve"),
                     c \in Positions("cartService.create") : r < c
               /\ Positions("customerService.retrieve") # {}
          ELSE args.customer_id = Undefined /\ args.email = Undefined
    /\ error = "not_found: customer"
       => /\ pc = "failed"
          /\ createArgs = <<>>
          /\ tx = EmptyStore /\ committed = EmptyStore

\* a cart created for the authenticated customer c1
C8_Witness ==
    /\ status = 200
    /\ user.customer_id = "c1"
    /\ \E c \in committed.carts : c.customer_id = "c1" /\ c.email = "c@d.org"

\* C9 (ordering): retrieveWithTotals is called at most once, only after the
\* commit and never after a rollback; the response is sent only after it.
C9_Order ==
    /\ Cardinality(Positions("cartService.retrieveWithTotals")) <= 1
    /\ \A r \in Positions("cartService.retrieveWithTotals") :
          /\ \E c \in Positions("commit") : c < r
          /\ Positions("rollback") = {}
    /\ \A j \in Positions("res.json") :
          \E r \in Positions("cartService.retrieveWithTotals") : r < j
    /\ status = 200 => Positions("res.json") # {}
    /\ Positions("rollback") # {}
       => Positions("cartService.retrieveWithTotals") = {} /\ status = 0

\* C9 (purity): the step that calls retrieveWithTotals leaves the store as
\* it is.
C9_Pure ==
    (Positions("cartService.retrieveWithTotals") = {}
     /\ Positions("cartService.retrieveWithTotals")' # {})
    => committed' = committed /\ tx' = tx

\* C9: materialization ordering and purity.
C9_Materialization == []C9_Order /\ [][C9_Pure]_vars

\* a request answered after commit and retrieveWithTotals
C9_Witness ==
    /\ status = 200
    /\ Positions("commit") # {}
    /\ Positions("cartService.retrieveWithTotals") # {}

\* C10 as stated: every request that went through the transaction has
\* consulted the sales_channels flag exactly once.
C10_FlagOncePerRequest ==
    (Positions("manager.transaction") # {} /\ pc \in {"retrieve", "respond", "done", "failed"})
    => Len(flagResults) = 1

\* C10 amended: the flag is consulted exactly when addLineItems is called,
\* hence at most once, and only for a request with items all of which were
\* generated; validateSalesChannels is the value the flag returned.
C10_FlagWithAddLineItems ==
    /\ Len(flagResults) = Len(addLineItemsCalls)
    /\ Len(flagResults) <= 1
    /\ \A k \in 1..Len(addLineItemsCalls) :
          addLineItemsCalls[k].config.validateSalesChannels = flagResults[k]
    /\ Len(flagResults) = 1
       => /\ Len(body.items) > 0
          /\ Len(generateCalls) = Len(body.items)
          /\ \A i \in 1..Len(generateCalls) : generateCalls[i].result = "ok"
    /\ (Positions("manager.transaction") # {}
        /\ pc \in {"retrieve", "respond", "done", "failed"})
       => (Len(flagResults) = 1
           <=> /\ Len(body.items) > 0
               /\ Len(generateCalls) = Len(body.items)
               /\ \A i \in 1..Len(generateCalls) : generateCalls[i].result = "ok")

\* a successful request with items for which the flag was off
C10_Witness ==
    /\ status = 200
    /\ Len(flagResults) = 1
    /\ flagResults[1] = FALSE
    /\ Len(addLineItemsCalls) = 1
====
